---- MODULE Spec2Model ----
(***************************************************************************)
(* Model of src/analysis.py: a linear batch report over a table of patient *)
(* encounters.  The script is a straight line of twelve steps; each step   *)
(* is one action, and `pc` is the step the script is about to run.  An     *)
(* uncaught exception ends the run (pc = "aborted").                       *)
(*                                                                         *)
(* Numbers.  A float is the pair <<num, den>> (the exact rational num/den, *)
(* den > 0); NaN is <<0, 0>>.  A value rounded to d decimals is            *)
(* <<k, 10^d>>.  An empty text cell (pandas' missing value in an object    *)
(* column) is the empty string.  Text written to the results file is a     *)
(* sequence of one-character strings.                                      *)
(***************************************************************************)
EXTENDS Integers, Sequences, FiniteSets, TLC

VARIABLES pc, fault, csv, df,
          total_patients, avg_length_stay, avg_cost, success_rate, readmission_rate,
          condition_stats, best_condition, worst_condition, most_expensive,
          treatment_stats, age_analysis, insurance_stats, monthly_trends,
          expensive_long_stay, results_file

vars == <<pc, fault, csv, df,
          total_patients, avg_length_stay, avg_cost, success_rate, readmission_rate,
          condition_stats, best_condition, worst_condition, most_expensive,
          treatment_stats, age_analysis, insurance_stats, monthly_trends,
          expensive_long_stay, results_file>>

\* Largest number of encounters in an input table.
MaxRows == 3

----------------------------------------------------------------------------
(* Floats *)

NaN == <<0, 0>>

Num(n) == <<n, 1>>

IsNaN(x) == x[2] = 0

\* x < y, x = y on floats; any comparison with NaN is false.
Lt(x, y) == ~IsNaN(x) /\ ~IsNaN(y) /\ x[1] * y[2] < y[1] * x[2]

Gt(x, y) == Lt(y, x)

Eq(x, y) == ~IsNaN(x) /\ ~IsNaN(y) /\ x[1] * y[2] = y[1] * x[2]

\* Same value the way a reader of the file compares it: NaN matches NaN.
Same(x, y) == IF IsNaN(x) \/ IsNaN(y) THEN IsNaN(x) /\ IsNaN(y) ELSE Eq(x, y)

RECURSIVE Pow10(_)
Pow10(d) == IF d = 0 THEN 1 ELSE 10 * Pow10(d - 1)

\* round(x, d): to d decimal digits, a tie going to the even neighbour.
Round(x, d) ==
    IF IsNaN(x) THEN NaN
    ELSE LET n == x[1] * Pow10(d)
             q == n \div x[2]
             r == n % x[2]
             k == IF 2 * r < x[2] THEN q
                  ELSE IF 2 * r > x[2] THEN q + 1
                  ELSE IF q % 2 = 0 THEN q ELSE q + 1
         IN  <<k, Pow10(d)>>

\* x * 100
Times100(x) == IF IsNaN(x) THEN NaN ELSE <<x[1] * 100, x[2]>>

----------------------------------------------------------------------------
(* Columns *)

RECURSIVE SumNums(_)
SumNums(s) == IF s = <<>> THEN 0 ELSE Head(s)[1] + SumNums(Tail(s))

\* The cells of column c, in row order.
Column(t, c) == [i \in 1..Len(t) |-> t[i][c]]

NotNaN(x) == ~IsNaN(x)

\* Series.sum(): missing values are skipped.
ColSum(cells) == SumNums(SelectSeq(cells, NotNaN))

\* Series.mean(): the mean of the values present; NaN when there are none.
ColMean(cells) ==
    LET present == SelectSeq(cells, NotNaN)
    IN  IF present = <<>> THEN NaN ELSE <<SumNums(present), Len(present)>>

RECURSIVE Insert(_, _)
Insert(x, s) ==
    IF s = <<>> THEN <<x>>
    ELSE IF Lt(Head(s), x) THEN <<Head(s)>> \o Insert(x, Tail(s))
    ELSE <<x>> \o s

RECURSIVE SortNums(_)
SortNums(s) == IF s = <<>> THEN <<>> ELSE Insert(Head(s), SortNums(Tail(s)))

\* Series.median(): the middle value, or the mean of the two middle values.
ColMedian(cells) ==
    LET s == SortNums(SelectSeq(cells, NotNaN))
        n == Len(s)
    IN  IF n = 0 THEN NaN
        ELSE IF n % 2 = 1 THEN s[(n + 1) \div 2]
        ELSE <<s[n \div 2][1] + s[n \div 2 + 1][1], 2>>

\* 'count': the number of cells of a text column that are present.
ColCount(cells) == Len(SelectSeq(cells, LAMBDA v : v # ""))

----------------------------------------------------------------------------
(* Group-by *)

\* The text keys the inputs use, in the order Python sorts strings.
Lexicographic ==
    <<"Asthma", "Diabetes", "Medicaid", "Medication", "Private", "Surgery">>

RankOf(k) == CHOOSE i \in 1..Len(Lexicographic) : Lexicographic[i] = k

\* Order of text keys.
TextRank(ks) == [k \in ks |-> RankOf(k)]

\* Order of monthly periods <<year, month>>.
PeriodRank(ks) == [k \in ks |-> k[1] * 12 + k[2]]

\* The set DOMAIN rank as the sequence of ascending rank.
Ascending(rank) ==
    LET ks == DOMAIN rank
    IN  CHOOSE s \in [1..Cardinality(ks) -> ks] :
            /\ \A k \in ks : \E i \in DOMAIN s : s[i] = k
            /\ \A i, j \in DOMAIN s : i < j => rank[s[i]] < rank[s[j]]

\* groupby(c) on a text column, sort=True, dropna=True: the distinct keys
\* present, ascending; rows with an empty key belong to no group.
GroupKeys(t, c) == Ascending(TextRank({t[i][c] : i \in 1..Len(t)} \ {""}))

\* groupby('admission_month'): the distinct periods, chronologically.
MonthKeys(t) == Ascending(PeriodRank({t[i].admission_month : i \in 1..Len(t)}))

\* The rows of one group, in table order.
GroupRows(t, c, k) == SelectSeq(t, LAMBDA r : r[c] = k)

\* DataFrame.round(2) over a mean column.
Round2(x) == Round(x, 2)

\* (col * 100).round(1) applied to a column already rounded by Round2.
Percent(x) == Round(Times100(x), 1)

\* Mutation of IdxMax: the last row holding the largest value.
IdxMaxLast(tbl, keycol, col) ==
    LET ok == {i \in 1..Len(tbl) : ~IsNaN(tbl[i][col])}
    IN  IF ok = {} THEN ""
        ELSE tbl[CHOOSE i \in ok :
                    /\ \A j \in ok : ~Gt(tbl[j][col], tbl[i][col])
                    /\ \A j \in ok : j > i => Lt(tbl[j][col], tbl[i][col])][keycol]

\* Series.idxmax() / idxmin(): the key of the first row, in table order, holding
\* the largest / smallest value present.  "" when no row holds a value.
IdxMax(tbl, keycol, col) ==
    LET ok == {i \in 1..Len(tbl) : ~IsNaN(tbl[i][col])}
    IN  IF ok = {} THEN ""
        ELSE tbl[CHOOSE i \in ok :
                    /\ \A j \in ok : ~Gt(tbl[j][col], tbl[i][col])
                    /\ \A j \in ok : j < i => Lt(tbl[j][col], tbl[i][col])][keycol]

IdxMin(tbl, keycol, col) ==
    LET ok == {i \in 1..Len(tbl) : ~IsNaN(tbl[i][col])}
    IN  IF ok = {} THEN ""
        ELSE tbl[CHOOSE i \in ok :
                    /\ \A j \in ok : ~Lt(tbl[j][col], tbl[i][col])
                    /\ \A j \in ok : j < i => Gt(tbl[j][col], tbl[i][col])][keycol]

----------------------------------------------------------------------------
(* Cleaning and bucketing *)

\* Mutation of ValidDate: every date is accepted (errors='coerce').
ValidDateCoerce(d) == TRUE

\* A date cell is <<year, month, day>>; pd.to_datetime raises on one that names
\* no day of the calendar.
ValidDate(d) == d[2] \in 1..12 /\ d[3] \in 1..31

\* .dt.to_period('M')
ToPeriod(d) == <<d[1], d[2]>>

\* Mutation of MapYesNo: every value but 'Yes' maps to 0.
MapYesNoDefault(v) == IF v = "Yes" THEN Num(1) ELSE Num(0)

\* Series.map({'Yes': 1, 'No': 0}): a value that is not a key maps to NaN.
MapYesNo(v) == IF v = "Yes" THEN Num(1) ELSE IF v = "No" THEN Num(0) ELSE NaN

AgeBins == <<0, 35, 50, 65, 100>>

AgeLabels == <<"Young (18-35)", "Middle (36-50)", "Senior (51-65)", "Elderly (66+)">>

\* Mutation of Cut: bins closed on the left, [bins[i], bins[i+1]).
CutLeftClosed(age) ==
    LET hit == {i \in 1..Len(AgeLabels) :
                    ~Lt(age, Num(AgeBins[i])) /\ Lt(age, Num(AgeBins[i + 1]))}
    IN  IF hit = {} THEN "" ELSE AgeLabels[CHOOSE i \in hit : TRUE]

\* pd.cut(age, bins, labels): bin i is (bins[i], bins[i+1]]; an age in no bin gets
\* no label.
Cut(age) ==
    LET hit == {i \in 1..Len(AgeLabels) :
                    Lt(Num(AgeBins[i]), age) /\ ~Lt(Num(AgeBins[i + 1]), age)}
    IN  IF hit = {} THEN "" ELSE AgeLabels[CHOOSE i \in hit : TRUE]

----------------------------------------------------------------------------
(* The input file *)

AllColumns ==
    {"patient_id", "admission_date", "discharge_date", "age", "condition",
     "treatment_type", "insurance_type", "length_of_stay", "total_cost",
     "doctor_visits", "treatment_success", "readmitted"}

NumericColumns == {"age", "length_of_stay", "total_cost", "doctor_visits"}

\* The dtype read_csv infers for a well-formed file: numeric fields numeric, the
\* rest text.  One non-numeric value makes a numeric field's whole column text
\* ("object"); a column of numeric condition codes comes out numeric.
CleanDtypes == [c \in AllColumns |-> IF c \in NumericColumns THEN "num" ELSE "object"]

BaseRow ==
    [patient_id |-> "P", admission_date |-> <<2024, 1, 15>>,
     discharge_date |-> <<2024, 1, 20>>, age |-> 40, condition |-> "Asthma",
     treatment_type |-> "Surgery", insurance_type |-> "Private",
     length_of_stay |-> 2, total_cost |-> 200, doctor_visits |-> 3,
     treatment_success |-> "Yes", readmitted |-> "No"]

\* Rows that differ in condition, outcome and cost.
RowsOutcome ==
    {[condition |-> c, treatment_success |-> s, total_cost |-> k] @@ BaseRow :
        c \in {"Asthma", "Diabetes"}, s \in {"Yes", "No", "Maybe"}, k \in {100, 200}}

\* Rows that differ in cost and stay.
RowsCost ==
    {[total_cost |-> k, length_of_stay |-> d] @@ BaseRow :
        k \in {100, 200, 300}, d \in {1, 2, 3}}

\* Rows that differ in age and in whether the patient identifier is present.
RowsAge ==
    {[age |-> a, patient_id |-> p] @@ BaseRow :
        a \in {0, 35, 36, 70, 101}, p \in {"P", ""}}

\* Rows that differ in condition (possibly empty), admission month and readmission.
RowsKeys ==
    {[condition |-> c, admission_date |-> <<2024, m, 15>>, readmitted |-> r] @@ BaseRow :
        c \in {"Diabetes", ""}, m \in {1, 2}, r \in {"Yes", "No"}}

\* Rows that differ in treatment and insurance type (possibly empty).
RowsPayer ==
    {[treatment_type |-> t, insurance_type |-> i] @@ BaseRow :
        t \in {"Surgery", "Medication", ""}, i \in {"Private", "Medicaid", ""}}

\* Rows of the malformed inputs: a well-formed row and rows with a date that
\* names no day.
RowsFaulty ==
    {BaseRow, [admission_date |-> <<2024, 13, 15>>] @@ BaseRow,
     [discharge_date |-> <<2024, 1, 32>>] @@ BaseRow}

Tables(R) == UNION {[1..n -> R] : n \in 1..MaxRows}

WellFormed(rows) ==
    [exists |-> TRUE, columns |-> AllColumns, dtypes |-> CleanDtypes, rows |-> rows]

\* Files that are absent, lack a column, or hold a column of the wrong kind.
Malformed(rows) ==
    {[WellFormed(rows) EXCEPT !.exists = FALSE]}
    \cup {[WellFormed(rows) EXCEPT !.columns = AllColumns \ {c}] : c \in AllColumns}
    \cup {[WellFormed(rows) EXCEPT !.dtypes[c] = "object"] : c \in NumericColumns}
    \cup {[WellFormed(rows) EXCEPT !.dtypes["condition"] = "num"]}

Inputs ==
    {WellFormed(t) : t \in Tables(RowsOutcome) \cup Tables(RowsCost) \cup Tables(RowsAge)
                            \cup Tables(RowsKeys) \cup Tables(RowsPayer)
                            \cup Tables(RowsFaulty) \cup {<<>>}}
    \cup UNION {Malformed(t) : t \in Tables(RowsFaulty) \cup {<<>>}}

Init ==
    /\ csv \in Inputs
    /\ pc = "load"
    /\ fault = "none"
    /\ df = <<>>
    /\ total_patients = 0
    /\ avg_length_stay = NaN
    /\ avg_cost = NaN
    /\ success_rate = NaN
    /\ readmission_rate = NaN
    /\ condition_stats = <<>>
    /\ best_condition = ""
    /\ worst_condition = ""
    /\ most_expensive = ""
    /\ treatment_stats = <<>>
    /\ age_analysis = <<>>
    /\ insurance_stats = <<>>
    /\ monthly_trends = <<>>
    /\ expensive_long_stay = <<>>
    /\ results_file = <<>>

----------------------------------------------------------------------------
(* The steps *)

\* An uncaught exception: the process ends where it is.
Raise(e) ==
    /\ pc' = "aborted"
    /\ fault' = e
    /\ UNCHANGED <<csv, df, total_patients, avg_length_stay, avg_cost, success_rate,
                   readmission_rate, condition_stats, best_condition, worst_condition,
                   most_expensive, treatment_stats, age_analysis, insurance_stats,
                   monthly_trends, expensive_long_stay, results_file>>

\* df[c] raises KeyError for a column the file does not have.
Lacks(cols) == cols \ csv.columns # {}

\* A numeric operation raises on a column read as text.
IsText(c) == csv.dtypes[c] = "object"

\* Mutation of ReadCsv: the first record is taken for the header line.
ReadCsvHeaderless(rows) ==
    [i \in 1..Len(rows) - 1 |->
        [c \in DOMAIN rows[i + 1] |->
            IF c \in NumericColumns THEN Num(rows[i + 1][c]) ELSE rows[i + 1][c]]]

\* pd.read_csv: one row per record, numeric fields as floats.
ReadCsv(rows) ==
    [i \in 1..Len(rows) |->
        [c \in DOMAIN rows[i] |->
            IF c \in NumericColumns THEN Num(rows[i][c]) ELSE rows[i][c]]]

\* Step 1: load and explore.
Load ==
    /\ pc = "load"
    /\ IF ~csv.exists THEN Raise("FileNotFoundError")
       ELSE IF Lacks({"admission_date", "discharge_date"}) THEN Raise("KeyError")
       ELSE /\ df' = ReadCsv(csv.rows)
            /\ pc' = "clean"
            /\ UNCHANGED <<fault, csv, total_patients, avg_length_stay, avg_cost,
                           success_rate, readmission_rate, condition_stats,
                           best_condition, worst_condition, most_expensive,
                           treatment_stats, age_analysis, insurance_stats,
                           monthly_trends, expensive_long_stay, results_file>>

\* The columns the cleaning step adds to one row.
Cleaned(r) ==
    [admission_month |-> ToPeriod(r.admission_date),
     success_binary |-> MapYesNo(r.treatment_success),
     readmitted_binary |-> MapYesNo(r.readmitted)] @@ r

\* Step 2: data cleaning.
Clean ==
    /\ pc = "clean"
    /\ IF \E i \in 1..Len(df) :
            ~ValidDate(df[i].admission_date) \/ ~ValidDate(df[i].discharge_date)
       THEN Raise("ValueError")
       ELSE IF Lacks({"treatment_success", "readmitted"}) THEN Raise("KeyError")
       ELSE /\ df' = [i \in 1..Len(df) |-> Cleaned(df[i])]
            /\ pc' = "metrics"
            /\ UNCHANGED <<fault, csv, total_patients, avg_length_stay, avg_cost,
                           success_rate, readmission_rate, condition_stats,
                           best_condition, worst_condition, most_expensive,
                           treatment_stats, age_analysis, insurance_stats,
                           monthly_trends, expensive_long_stay, results_file>>

\* (sum / total_patients) * 100
Rate(cells, total) == <<ColSum(cells) * 100, total>>

\* Step 3: overall metrics.  On an empty table the division is 0 / 0: NaN with
\* a warning when the sum is a numpy scalar, ZeroDivisionError when it is a
\* Python number; which one depends on the dtype the build gives an empty column.
KeyMetrics ==
    /\ pc = "metrics"
    /\ IF Lacks({"length_of_stay", "total_cost"}) THEN Raise("KeyError")
       ELSE IF IsText("length_of_stay") \/ IsText("total_cost") THEN Raise("TypeError")
       ELSE \E python_zero \in BOOLEAN :
            IF Len(df) = 0 /\ python_zero THEN Raise("ZeroDivisionError")
            ELSE /\ total_patients' = Len(df)
                 /\ avg_length_stay' = ColMean(Column(df, "length_of_stay"))
                 /\ avg_cost' = ColMean(Column(df, "total_cost"))
                 /\ success_rate' = IF Len(df) = 0 THEN NaN
                                    ELSE Rate(Column(df, "success_binary"), Len(df))
                 /\ readmission_rate' = IF Len(df) = 0 THEN NaN
                                        ELSE Rate(Column(df, "readmitted_binary"), Len(df))
                 /\ pc' = "condition"
                 /\ UNCHANGED <<fault, csv, df, condition_stats, best_condition,
                                worst_condition, most_expensive, treatment_stats,
                                age_analysis, insurance_stats, monthly_trends,
                                expensive_long_stay, results_file>>

\* One record of condition_stats: the aggregate of the rows g of condition k.
ConditionRecord(k, g) ==
    [condition |-> k,
     Patient_Count |-> ColCount(Column(g, "patient_id")),
     Avg_Stay_Days |-> Round2(ColMean(Column(g, "length_of_stay"))),
     Avg_Cost |-> Round2(ColMean(Column(g, "total_cost"))),
     Success_Rate |-> Percent(Round2(ColMean(Column(g, "success_binary")))),
     Readmission_Rate |-> Percent(Round2(ColMean(Column(g, "readmitted_binary"))))]

ConditionStats(t) ==
    LET ks == GroupKeys(t, "condition")
    IN  [i \in 1..Len(ks) |-> ConditionRecord(ks[i], GroupRows(t, "condition", ks[i]))]

\* Step 4: analysis by condition.  idxmax / idxmin of a column with no value
\* (no group, or no group with a mapped outcome) raises, or yields NaN on which
\* the .loc lookup of the findings raises; either way the step ends the run.
ConditionAnalysis ==
    /\ pc = "condition"
    /\ IF Lacks({"condition", "patient_id"}) THEN Raise("KeyError")
       ELSE LET stats == ConditionStats(df)
            IN  IF IdxMax(stats, "condition", "Success_Rate") = ""
                THEN /\ condition_stats' = stats
                     /\ pc' = "aborted"
                     /\ fault' = "ValueError"
                     /\ UNCHANGED <<csv, df, total_patients, avg_length_stay, avg_cost,
                                    success_rate, readmission_rate, best_condition,
                                    worst_condition, most_expensive, treatment_stats,
                                    age_analysis, insurance_stats, monthly_trends,
                                    expensive_long_stay, results_file>>
                ELSE /\ condition_stats' = stats
                     /\ best_condition' = IdxMax(stats, "condition", "Success_Rate")
                     /\ worst_condition' = IdxMin(stats, "condition", "Success_Rate")
                     /\ most_expensive' = IdxMax(stats, "condition", "Avg_Cost")
                     /\ pc' = "treatment"
                     /\ UNCHANGED <<fault, csv, df, total_patients, avg_length_stay,
                                    avg_cost, success_rate, readmission_rate,
                                    treatment_stats, age_analysis, insurance_stats,
                                    monthly_trends, expensive_long_stay, results_file>>

TreatmentRecord(k, g) ==
    [treatment_type |-> k,
     Patient_Count |-> ColCount(Column(g, "patient_id")),
     Avg_Cost |-> Round2(ColMean(Column(g, "total_cost"))),
     Success_Rate |-> Percent(Round2(ColMean(Column(g, "success_binary")))),
     Avg_Stay |-> Round2(ColMean(Column(g, "length_of_stay")))]

TreatmentStats(t) ==
    LET ks == GroupKeys(t, "treatment_type")
    IN  [i \in 1..Len(ks) |->
            TreatmentRecord(ks[i], GroupRows(t, "treatment_type", ks[i]))]

\* Step 5: analysis by treatment type.
TreatmentAnalysis ==
    /\ pc = "treatment"
    /\ IF Lacks({"treatment_type"}) THEN Raise("KeyError")
       ELSE /\ treatment_stats' = TreatmentStats(df)
            /\ pc' = "age"
            /\ UNCHANGED <<fault, csv, df, total_patients, avg_length_stay, avg_cost,
                           success_rate, readmission_rate, condition_stats,
                           best_condition, worst_condition, most_expensive,
                           age_analysis, insurance_stats, monthly_trends,
                           expensive_long_stay, results_file>>

\* The column the age step adds to one row.
Bucketed(r) == [age_group |-> Cut(r.age)] @@ r

AgeRecord(k, g) ==
    [age_group |-> k,
     Patient_Count |-> ColCount(Column(g, "patient_id")),
     Avg_Cost |-> Round2(ColMean(Column(g, "total_cost"))),
     Avg_Stay |-> Round2(ColMean(Column(g, "length_of_stay"))),
     Success_Rate |-> Percent(Round2(ColMean(Column(g, "success_binary"))))]

\* age_group is categorical and groupby keeps unobserved categories (the
\* default of pandas 1.x and 2.x): the table has one record per label, in label
\* order, an unused label with count 0 and no means.
AgeAnalysisOf(t) ==
    [i \in 1..Len(AgeLabels) |->
        AgeRecord(AgeLabels[i], GroupRows(t, "age_group", AgeLabels[i]))]

\* Step 6: analysis by age group.
AgeAnalysis ==
    /\ pc = "age"
    /\ IF Lacks({"age"}) THEN Raise("KeyError")
       ELSE IF IsText("age") THEN Raise("TypeError")
       ELSE /\ df' = [i \in 1..Len(df) |-> Bucketed(df[i])]
            /\ age_analysis' = AgeAnalysisOf(df')
            /\ pc' = "insurance"
            /\ UNCHANGED <<fault, csv, total_patients, avg_length_stay, avg_cost,
                           success_rate, readmission_rate, condition_stats,
                           best_condition, worst_condition, most_expensive,
                           treatment_stats, insurance_stats, monthly_trends,
                           expensive_long_stay, results_file>>

InsuranceRecord(k, g) ==
    [insurance_type |-> k,
     Patient_Count |-> ColCount(Column(g, "patient_id")),
     Avg_Cost |-> Round2(ColMean(Column(g, "total_cost"))),
     Avg_Stay |-> Round2(ColMean(Column(g, "length_of_stay")))]

InsuranceStats(t) ==
    LET ks == GroupKeys(t, "insurance_type")
    IN  [i \in 1..Len(ks) |->
            InsuranceRecord(ks[i], GroupRows(t, "insurance_type", ks[i]))]

\* Step 7: analysis by insurance type.
InsuranceAnalysis ==
    /\ pc = "insurance"
    /\ IF Lacks({"insurance_type"}) THEN Raise("KeyError")
       ELSE /\ insurance_stats' = InsuranceStats(df)
            /\ pc' = "monthly"
            /\ UNCHANGED <<fault, csv, df, total_patients, avg_length_stay, avg_cost,
                           success_rate, readmission_rate, condition_stats,
                           best_condition, worst_condition, most_expensive,
                           treatment_stats, age_analysis, monthly_trends,
                           expensive_long_stay, results_file>>

MonthRecord(k, g) ==
    [admission_month |-> k,
     Admissions |-> ColCount(Column(g, "patient_id")),
     Avg_Cost |-> Round2(ColMean(Column(g, "total_cost")))]

MonthlyTrendsOf(t) ==
    LET ks == MonthKeys(t)
    IN  [i \in 1..Len(ks) |-> MonthRecord(ks[i], GroupRows(t, "admission_month", ks[i]))]

\* Step 8: monthly admission trends.
MonthlyTrends ==
    /\ pc = "monthly"
    /\ monthly_trends' = MonthlyTrendsOf(df)
    /\ pc' = "cost"
    /\ UNCHANGED <<fault, csv, df, total_patients, avg_length_stay, avg_cost,
                   success_rate, readmission_rate, condition_stats, best_condition,
                   worst_condition, most_expensive, treatment_stats, age_analysis,
                   insurance_stats, expensive_long_stay, results_file>>

\* Mutation of ExpensiveLongStay: at or above the medians.
ExpensiveLongStayInclusive(t) ==
    SelectSeq(t, LAMBDA r :
        /\ ~Lt(r.total_cost, ColMedian(Column(t, "total_cost")))
        /\ ~Lt(r.length_of_stay, ColMedian(Column(t, "length_of_stay"))))

\* df[(total_cost > median cost) & (length_of_stay > median stay)]
ExpensiveLongStay(t) ==
    SelectSeq(t, LAMBDA r :
        /\ Gt(r.total_cost, ColMedian(Column(t, "total_cost")))
        /\ Gt(r.length_of_stay, ColMedian(Column(t, "length_of_stay"))))

\* Step 9: cost optimisation insights.
CostInsights ==
    /\ pc = "cost"
    /\ expensive_long_stay' = ExpensiveLongStay(df)
    /\ pc' = "correlations"
    /\ UNCHANGED <<fault, csv, df, total_patients, avg_length_stay, avg_cost,
                   success_rate, readmission_rate, condition_stats, best_condition,
                   worst_condition, most_expensive, treatment_stats, age_analysis,
                   insurance_stats, monthly_trends, results_file>>

\* Step 10: the correlation matrix is printed and kept nowhere; what the step
\* can do to the run is end it, on a doctor_visits column that is absent or text.
Correlations ==
    /\ pc = "correlations"
    /\ IF Lacks({"doctor_visits"}) THEN Raise("KeyError")
       ELSE IF IsText("doctor_visits") THEN Raise("ValueError")
       ELSE /\ pc' = "save"
            /\ UNCHANGED <<fault, csv, df, total_patients, avg_length_stay, avg_cost,
                           success_rate, readmission_rate, condition_stats,
                           best_condition, worst_condition, most_expensive,
                           treatment_stats, age_analysis, insurance_stats,
                           monthly_trends, expensive_long_stay, results_file>>

----------------------------------------------------------------------------
(* The results file: JSON text, written by json.dump and read by json.load *)

Digits == <<"0", "1", "2", "3", "4", "5", "6", "7", "8", "9">>

DigitOf(n) == Digits[n + 1]

ValueOf(ch) == (CHOOSE i \in 1..Len(Digits) : Digits[i] = ch) - 1

\* The decimal digits of a natural number.
RECURSIVE IntText(_)
IntText(n) == IF n < 10 THEN <<DigitOf(n)>> ELSE IntText(n \div 10) \o <<DigitOf(n % 10)>>

\* The last w digits of n, zero-padded on the left.
RECURSIVE Padded(_, _)
Padded(n, w) == IF w = 0 THEN <<>> ELSE Padded(n \div 10, w - 1) \o <<DigitOf(n % 10)>>

\* A digit string without its trailing zeros.
RECURSIVE Stripped(_)
Stripped(t) ==
    IF t # <<>> /\ t[Len(t)] = "0" THEN Stripped(SubSeq(t, 1, Len(t) - 1)) ELSE t

\* The number of decimals of a value <<k, 10^w>>.
RECURSIVE Decimals(_)
Decimals(den) == IF den = 1 THEN 0 ELSE 1 + Decimals(den \div 10)

\* float.__repr__ of a value rounded to a few decimals: the integer part, the
\* point, and the decimals without trailing zeros (at least one digit); NaN as
\* the token NaN.
FloatText(x) ==
    IF IsNaN(x) THEN <<"N", "a", "N">>
    ELSE LET frac == Stripped(Padded(x[1] % x[2], Decimals(x[2])))
         IN  IntText(x[1] \div x[2]) \o <<".">> \o (IF frac = <<>> THEN <<"0">> ELSE frac)

\* str(period): YYYY-MM
PeriodText(k) == Padded(k[1], 4) \o <<"-">> \o Padded(k[2], 2)

\* The value of a digit string.
RECURSIVE ParseInt(_)
ParseInt(t) ==
    IF t = <<>> THEN 0 ELSE 10 * ParseInt(SubSeq(t, 1, Len(t) - 1)) + ValueOf(t[Len(t)])

\* json.load of a number: its float.
ParseFloat(t) ==
    IF t = <<"N", "a", "N">> THEN NaN
    ELSE LET dot == CHOOSE i \in 1..Len(t) : t[i] = "."
             frac == SubSeq(t, dot + 1, Len(t))
         IN  <<ParseInt(SubSeq(t, 1, dot - 1)) * Pow10(Len(frac)) + ParseInt(frac),
               Pow10(Len(frac))>>

\* Mutation of Rounded: the decimals beyond d are cut off.
RoundedDown(x, d) ==
    FloatText(IF IsNaN(x) THEN NaN ELSE <<(x[1] * Pow10(d)) \div x[2], Pow10(d)>>)

\* round(float(x), d), as json.dump writes it.
Rounded(x, d) == FloatText(Round(x, d))

\* DataFrame.to_dict('records') of a grouped table, as json.dump writes it: the
\* key as it is, a count as an integer, every other field as a float.
RecordsText(tbl, keycol) ==
    [i \in 1..Len(tbl) |->
        [f \in DOMAIN tbl[i] |->
            IF f = keycol THEN tbl[i][f]
            ELSE IF f = "Patient_Count" THEN IntText(tbl[i][f])
            ELSE FloatText(tbl[i][f])]]

DashboardData ==
    [summary |->
        [total_patients |-> IntText(total_patients),
         avg_stay |-> Rounded(avg_length_stay, 1),
         avg_cost |-> Rounded(avg_cost, 2),
         success_rate |-> Rounded(success_rate, 1),
         readmission_rate |-> Rounded(readmission_rate, 1)],
     by_condition |-> RecordsText(condition_stats, "condition"),
     by_treatment |-> RecordsText(treatment_stats, "treatment_type"),
     by_age_group |-> RecordsText(age_analysis, "age_group"),
     monthly_trends |->
        [i \in 1..Len(monthly_trends) |->
            [month |-> PeriodText(monthly_trends[i].admission_month),
             admissions |-> IntText(monthly_trends[i].Admissions),
             avg_cost |-> Rounded(monthly_trends[i].Avg_Cost, 2)]]]

\* Step 11: save the results.  results_file is <<>> while no file has been
\* written and <<contents>> afterwards.
SaveResults ==
    /\ pc = "save"
    /\ results_file' = <<DashboardData>>
    /\ pc' = "recommend"
    /\ UNCHANGED <<fault, csv, df, total_patients, avg_length_stay, avg_cost,
                   success_rate, readmission_rate, condition_stats, best_condition,
                   worst_condition, most_expensive, treatment_stats, age_analysis,
                   insurance_stats, monthly_trends, expensive_long_stay>>

\* Step 12: recommendations.  worst_condition.upper() raises AttributeError on a
\* label that is a number.
Recommendations ==
    /\ pc = "recommend"
    /\ IF csv.dtypes["condition"] = "num" THEN Raise("AttributeError")
       ELSE /\ pc' = "done"
            /\ UNCHANGED <<fault, csv, df, total_patients, avg_length_stay, avg_cost,
                           success_rate, readmission_rate, condition_stats,
                           best_condition, worst_condition, most_expensive,
                           treatment_stats, age_analysis, insurance_stats,
                           monthly_trends, expensive_long_stay, results_file>>

Next ==
    \/ Load
    \/ Clean
    \/ KeyMetrics
    \/ ConditionAnalysis
    \/ TreatmentAnalysis
    \/ AgeAnalysis
    \/ InsuranceAnalysis
    \/ MonthlyTrends
    \/ CostInsights
    \/ Correlations
    \/ SaveResults
    \/ Recommendations

Spec == Init /\ [][Next]_vars

----------------------------------------------------------------------------
(* Properties *)

\* Steps at which the named result has been computed.
AfterClean == {"metrics", "condition", "treatment", "age", "insurance", "monthly",
               "cost", "correlations", "save", "recommend", "done"}

AfterMetrics == AfterClean \ {"metrics"}

AfterCondition == AfterMetrics \ {"condition"}

AfterAge == AfterCondition \ {"treatment", "age"}

AfterMonthly == AfterAge \ {"insurance", "monthly"}

AfterCost == AfterMonthly \ {"cost"}

RECURSIVE SumField(_, _)
SumField(tbl, f) == IF tbl = <<>> THEN 0 ELSE Head(tbl)[f] + SumField(Tail(tbl), f)

\* Every row has a key in each of the five grouping columns.
NoMissingKeys ==
    \A i \in 1..Len(df) :
        /\ df[i].condition # ""
        /\ df[i].treatment_type # ""
        /\ df[i].insurance_type # ""
        /\ df[i].age_group # ""

\* C1: once the five grouped tables are computed from a table whose grouping
\* columns hold no missing value, the patient counts of each table sum to
\* total_patients.
C1_CountsSumToTotal ==
    (pc \in AfterMonthly /\ NoMissingKeys) =>
        /\ SumField(condition_stats, "Patient_Count") = total_patients
        /\ SumField(treatment_stats, "Patient_Count") = total_patients
        /\ SumField(age_analysis, "Patient_Count") = total_patients
        /\ SumField(insurance_stats, "Patient_Count") = total_patients
        /\ SumField(monthly_trends, "Admissions") = total_patients

\* The summary of the written file, read back.
Summary == results_file[1].summary

\* C2: the success rate (readmission rate) in the written summary is the mean of
\* the success_binary (readmitted_binary) column times 100, rounded to one
\* decimal.
C2_SummaryRateIsColumnMean ==
    results_file # <<>> =>
        /\ Same(ParseFloat(Summary.success_rate),
                Round(Times100(ColMean(Column(df, "success_binary"))), 1))
        /\ Same(ParseFloat(Summary.readmission_rate),
                Round(Times100(ColMean(Column(df, "readmitted_binary"))), 1))

\* C3: the table has one row per record of the file from the load on, through
\* every step; total_patients, and the total_patients read back from the
\* written summary, are that row count.
C3_RowCountFixed ==
    /\ pc \notin {"load", "aborted"} => Len(df) = Len(csv.rows)
    /\ pc = "aborted" => df = <<>> \/ Len(df) = Len(csv.rows)
    /\ pc \in AfterMetrics => total_patients = Len(csv.rows)
    /\ results_file # <<>> =>
            /\ Len(csv.rows) > 0
            /\ ParseInt(Summary.total_patients) = Len(csv.rows)

\* C3 witness: a completed run over three encounters, one of them with an
\* outcome that maps to no value.
C3_Witness ==
    /\ pc = "done"
    /\ Len(df) = 3
    /\ \E i \in 1..Len(df) : df[i].treatment_success = "Maybe"

\* The patients of the by_age_group record of label k, read back from the file.
CountedIn(k) ==
    LET recs == results_file[1].by_age_group
        at == CHOOSE i \in 1..Len(recs) : recs[i].age_group = k
    IN  ParseInt(recs[at].Patient_Count)

\* C4: age 35 is bucketed 'Young (18-35)', age 36 'Middle (36-50)', an age
\* outside [0, 100] gets no bucket and is counted in no by_age_group record,
\* and no age lies in two buckets.
C4_AgeBuckets ==
    /\ pc \in AfterAge =>
        \A i \in 1..Len(df) :
            LET a == df[i].age[1]
            IN  /\ a = 35 => df[i].age_group = "Young (18-35)"
                /\ a = 36 => df[i].age_group = "Middle (36-50)"
                /\ (a < 0 \/ a > 100) => df[i].age_group = ""
                /\ Cardinality({b \in 1..Len(AgeLabels) :
                                    AgeBins[b] < a /\ a <= AgeBins[b + 1]}) <= 1
                /\ df[i].age_group # "" =>
                        \E b \in 1..Len(AgeLabels) :
                            /\ df[i].age_group = AgeLabels[b]
                            /\ AgeBins[b] < a /\ a <= AgeBins[b + 1]
    /\ results_file # <<>> =>
        \A b \in 1..Len(AgeLabels) :
            CountedIn(AgeLabels[b]) =
                Cardinality({i \in 1..Len(df) :
                    /\ df[i].patient_id # ""
                    /\ AgeBins[b] < df[i].age[1] /\ df[i].age[1] <= AgeBins[b + 1]})

\* C4 witness: a written file for a table holding the ages 35, 36 and 101.
C4_Witness ==
    /\ results_file # <<>>
    /\ \A a \in {35, 36, 101} : \E i \in 1..Len(df) : df[i].age = Num(a) /\ df[i].patient_id # ""
    /\ CountedIn("Young (18-35)") = 1
    /\ CountedIn("Middle (36-50)") = 1
    /\ CountedIn("Elderly (66+)") = 0

Costs == [i \in 1..Len(df) |-> df[i].total_cost[1]]

Stays == [i \in 1..Len(df) |-> df[i].length_of_stay[1]]

\* C5: expensive_long_stay holds exactly the rows whose cost is strictly above
\* the median cost and whose stay is strictly above the median stay; none when
\* all costs are equal and all stays are equal; exactly the row (300, 3) for
\* costs [100, 200, 300] with stays [1, 2, 3].
C5_ExpensiveLongStay ==
    pc \in AfterCost =>
        /\ expensive_long_stay =
                SelectSeq(df, LAMBDA r :
                    /\ Lt(ColMedian(Column(df, "total_cost")), r.total_cost)
                    /\ Lt(ColMedian(Column(df, "length_of_stay")), r.length_of_stay))
        /\ ((\A i, j \in 1..Len(df) : Costs[i] = Costs[j] /\ Stays[i] = Stays[j])
                => expensive_long_stay = <<>>)
        /\ ((Costs = <<100, 200, 300>> /\ Stays = <<1, 2, 3>>)
                => /\ Len(expensive_long_stay) = 1
                   /\ expensive_long_stay[1].total_cost = Num(300)
                   /\ expensive_long_stay[1].length_of_stay = Num(3))
        /\ ((Costs = <<100, 200, 300>> /\ Stays = <<1, 2, 3>>)
                => /\ ColMedian(Column(df, "total_cost")) = Num(200)
                   /\ ColMedian(Column(df, "length_of_stay")) = Num(2))

\* C5 witness: the scenario of costs [100, 200, 300] with stays [1, 2, 3].
C5_Witness ==
    /\ pc \in AfterCost
    /\ Costs = <<100, 200, 300>>
    /\ Stays = <<1, 2, 3>>
    /\ Len(expensive_long_stay) = 1

\* The faults of the input: no file, a column absent, a date that names no
\* day, a numeric field read as text, no rows.
MissingFile == ~csv.exists

MissingColumn == csv.columns # AllColumns

UnparseableDate ==
    \E i \in 1..Len(csv.rows) :
        \E d \in {csv.rows[i].admission_date, csv.rows[i].discharge_date} :
            d[2] < 1 \/ d[2] > 12 \/ d[3] < 1 \/ d[3] > 31

NonNumericValue == \E c \in NumericColumns : csv.dtypes[c] = "object"

EmptyDataset == csv.rows = <<>>

InputFault ==
    MissingFile \/ MissingColumn \/ UnparseableDate \/ NonNumericValue \/ EmptyDataset

\* C6: a run over an input with one of the faults never gets to the save step
\* and never writes the results file; the only exception that can follow a
\* written file is the recommendation step's; and a written file holds the
\* aggregates and insights of the whole table, all computed before it.
C6_NoResultsOnFault ==
    /\ InputFault => results_file = <<>> /\ pc \notin {"save", "recommend", "done"}
    /\ (pc = "aborted" /\ fault # "AttributeError") => results_file = <<>>
    /\ results_file # <<>> =>
            /\ pc \in {"recommend", "done", "aborted"}
            /\ condition_stats = ConditionStats(df)
            /\ treatment_stats = TreatmentStats(df)
            /\ age_analysis = AgeAnalysisOf(df)
            /\ insurance_stats = InsuranceStats(df)
            /\ monthly_trends = MonthlyTrendsOf(df)
            /\ expensive_long_stay = ExpensiveLongStay(df)
            /\ best_condition # "" /\ worst_condition # "" /\ most_expensive # ""
            /\ results_file = <<DashboardData>>

\* C6 witness: a run ended by a date that names no day, in a file that is
\* otherwise well-formed, with no results file.
C6_Witness ==
    /\ pc = "aborted"
    /\ fault = "ValueError"
    /\ UnparseableDate
    /\ ~MissingFile /\ ~MissingColumn /\ ~NonNumericValue /\ ~EmptyDataset
    /\ results_file = <<>>

\* v is x rounded to d decimals: a multiple of 10^-d at most half a unit of the
\* last digit away from x.
NearestTo(v, x, d) ==
    /\ ~IsNaN(v) /\ ~IsNaN(x)
    /\ (v[1] * Pow10(d)) % v[2] = 0
    /\ LET diff == v[1] * x[2] - x[1] * v[2]
       IN  2 * Pow10(d) * (IF diff < 0 THEN -diff ELSE diff) <= v[2] * x[2]

RECURSIVE SumSeq(_)
SumSeq(s) == IF s = <<>> THEN 0 ELSE Head(s) + SumSeq(Tail(s))

\* The number of rows of the loaded table with the value v in column c.
CountOf(c, v) == Cardinality({i \in 1..Len(csv.rows) : csv.rows[i][c] = v})

\* C7: the summary read back from the written file holds the number of rows,
\* the mean stay to 1 decimal, the mean cost to 2 decimals, and the share of
\* 'Yes' outcomes and of 'Yes' readmissions in percent to 1 decimal, each as
\* computed from the loaded table.
C7_SummaryRoundTrip ==
    results_file # <<>> =>
        LET n == Len(csv.rows)
        IN  /\ ParseInt(Summary.total_patients) = n
            /\ NearestTo(ParseFloat(Summary.avg_stay), <<SumSeq(Stays), n>>, 1)
            /\ NearestTo(ParseFloat(Summary.avg_cost), <<SumSeq(Costs), n>>, 2)
            /\ NearestTo(ParseFloat(Summary.success_rate),
                         <<100 * CountOf("treatment_success", "Yes"), n>>, 1)
            /\ NearestTo(ParseFloat(Summary.readmission_rate),
                         <<100 * CountOf("readmitted", "Yes"), n>>, 1)
            /\ Same(ParseFloat(Summary.avg_stay), Round(avg_length_stay, 1))
            /\ Same(ParseFloat(Summary.avg_cost), Round(avg_cost, 2))
            /\ Same(ParseFloat(Summary.success_rate), Round(success_rate, 1))
            /\ Same(ParseFloat(Summary.readmission_rate), Round(readmission_rate, 1))

\* C7 witness: a written file whose mean cost and mean stay are not whole
\* numbers (500 / 3 and 4 / 3).
C7_Witness ==
    /\ pc = "done"
    /\ Len(df) = 3
    /\ SumSeq(Costs) = 500
    /\ SumSeq(Stays) = 4
    /\ Summary.avg_cost = <<"1", "6", "6", ".", "6", "7">>
    /\ Summary.avg_stay = <<"1", ".", "3">>

\* The mean, in percent to one decimal, of column c over the rows of table t
\* whose column keycol is k.
GroupPercent(t, keycol, k, c) ==
    Round(Times100(ColMean(Column(GroupRows(t, keycol, k), c))), 1)

\* C8: in the grouped tables that report it, a group's Success_Rate
\* (Readmission_Rate) is the group's mean of success_binary (readmitted_binary)
\* times 100, rounded to one decimal.
C8_GroupRateIsMeanPercent ==
    pc \in AfterAge =>
        /\ \A i \in 1..Len(condition_stats) :
            LET rec == condition_stats[i]
            IN  /\ Same(rec.Success_Rate,
                        GroupPercent(df, "condition", rec.condition, "success_binary"))
                /\ Same(rec.Readmission_Rate,
                        GroupPercent(df, "condition", rec.condition, "readmitted_binary"))
        /\ \A i \in 1..Len(treatment_stats) :
            LET rec == treatment_stats[i]
            IN  Same(rec.Success_Rate,
                     GroupPercent(df, "treatment_type", rec.treatment_type, "success_binary"))
        /\ \A i \in 1..Len(age_analysis) :
            LET rec == age_analysis[i]
            IN  Same(rec.Success_Rate,
                     GroupPercent(df, "age_group", rec.age_group, "success_binary"))

\* The record of condition k in condition_stats.
StatsOf(k) == CHOOSE i \in 1..Len(condition_stats) : condition_stats[i].condition = k

\* C9: best_condition holds the largest Success_Rate of condition_stats,
\* worst_condition the smallest, most_expensive the largest Avg_Cost; the table
\* is in ascending order of condition, and among the groups sharing the extreme
\* value the chosen one comes first.
C9_Extremes ==
    pc \in AfterCondition =>
        LET n == Len(condition_stats)
            rated == {i \in 1..n : ~IsNaN(condition_stats[i].Success_Rate)}
            b == StatsOf(best_condition)
            w == StatsOf(worst_condition)
            e == StatsOf(most_expensive)
        IN  /\ \A i, j \in 1..n :
                    i < j => RankOf(condition_stats[i].condition)
                                < RankOf(condition_stats[j].condition)
            /\ b \in rated /\ w \in rated
            /\ \A i \in rated :
                    /\ ~Gt(condition_stats[i].Success_Rate, condition_stats[b].Success_Rate)
                    /\ ~Lt(condition_stats[i].Success_Rate, condition_stats[w].Success_Rate)
                    /\ Eq(condition_stats[i].Success_Rate, condition_stats[b].Success_Rate)
                            => b <= i
                    /\ Eq(condition_stats[i].Success_Rate, condition_stats[w].Success_Rate)
                            => w <= i
            /\ \A i \in 1..n :
                    /\ ~Gt(condition_stats[i].Avg_Cost, condition_stats[e].Avg_Cost)
                    /\ Eq(condition_stats[i].Avg_Cost, condition_stats[e].Avg_Cost) => e <= i

\* C9 witness: two conditions tie on success rate and on average cost, and
\* the first of them in condition order is chosen each time.
C9_Witness ==
    /\ pc \in AfterCondition
    /\ Len(condition_stats) = 2
    /\ Eq(condition_stats[1].Success_Rate, condition_stats[2].Success_Rate)
    /\ Eq(condition_stats[1].Avg_Cost, condition_stats[2].Avg_Cost)
    /\ best_condition = "Asthma"
    /\ worst_condition = "Asthma"
    /\ most_expensive = "Asthma"
    /\ df[1].condition = "Diabetes"

\* The cleaning step can run: the dates name days and its columns exist.
CleanInputOk ==
    /\ \A i \in 1..Len(df) :
            \A d \in {df[i].admission_date, df[i].discharge_date} :
                d[2] \in 1..12 /\ d[3] \in 1..31
    /\ {"treatment_success", "readmitted"} \subseteq csv.columns

\* C10: the cleaning step maps 'Yes' to 1, 'No' to 0 and any other value to a
\* missing value in success_binary and readmitted_binary; it ends the run only
\* on a bad date or an absent column, never on a category value, and keeps
\* every row with its fields as they were.
C10_CleaningMapsSilently ==
    [][pc = "clean" =>
        IF CleanInputOk
        THEN /\ pc' = "metrics"
             /\ Len(df') = Len(df)
             /\ \A i \in 1..Len(df) :
                    /\ \A c \in DOMAIN df[i] : df'[i][c] = df[i][c]
                    /\ df'[i].success_binary =
                            (IF df[i].treatment_success = "Yes" THEN <<1, 1>>
                             ELSE IF df[i].treatment_success = "No" THEN <<0, 1>>
                             ELSE <<0, 0>>)
                    /\ df'[i].readmitted_binary =
                            (IF df[i].readmitted = "Yes" THEN <<1, 1>>
                             ELSE IF df[i].readmitted = "No" THEN <<0, 1>>
                             ELSE <<0, 0>>)
        ELSE pc' = "aborted"]_vars

\* C10 witness: the cleaning step has run over a row whose outcome is neither
\* 'Yes' nor 'No'; the row is in the table with a missing success_binary.
C10_Witness ==
    /\ pc = "metrics"
    /\ fault = "none"
    /\ \E i \in 1..Len(df) :
            /\ df[i].treatment_success = "Maybe"
            /\ IsNaN(df[i].success_binary)

====
